---- MODULE Spec2Model ----
(***************************************************************************)
(* Verification model of the warehouse order workflow.                     *)
(*                                                                         *)
(* Two main parts share this module:                                       *)
(*   - the order endpoints of src/app.py over the Redis store, one action  *)
(*     per Redis command so that overlapping requests interleave           *)
(*     (specification SpecApp);                                            *)
(*   - the state-machine service reached through src/warehouse_client.py   *)
(*     (workflow graph, permission table, task queue, transition           *)
(*     coordinator) together with the client's own logic                   *)
(*     (specification Spec).                                               *)
(*                                                                         *)
(* Smaller parts are checked on their own: the round trip of an order's    *)
(* fields through create and get (SpecRoundTrip), the basket endpoint      *)
(* (SpecBasket), the client's listing of a customer's orders (SpecList),   *)
(* the client's worker loop (SpecWorker, SpecWorkerRuns), the allocation of*)
(* identifiers (SpecIds), workers draining the queues (SpecDrain), release *)
(* with any agent identifier (SpecRelease), an order's path through the    *)
(* workflow (SpecPath), the customer endpoints (SpecCustomers) and         *)
(* update_item (SpecItems).                                                *)
(***************************************************************************)
EXTENDS Integers, Sequences, FiniteSets, TLC

\* ------------------------------------------------------------------ bounds
MaxOrders == 1
MaxTasks == 2
MaxOrderId == 1
MaxHist == 3
MaxNameLen == 2
MaxItems == 2
MaxAdds == 3
MaxStore == 51
MaxRun == 2
MaxCreated == 2
MaxPath == 5
MaxCustomers == 2

\* --------------------------------------------------------- workflow graph
States ==
    {"pending", "confirmed", "picking", "packed", "shipped", "delivered",
     "cancelled", "halted", "returned"}

Roles == {"customer", "fulfillment"}

Edge(n, s, d) == [name |-> n, source |-> s, dest |-> d]

ForwardEdges ==
    { Edge("confirm", "pending", "confirmed"),
      Edge("start_picking", "confirmed", "picking"),
      Edge("pack", "picking", "packed"),
      Edge("ship", "packed", "shipped"),
      Edge("deliver", "shipped", "delivered") }

cancel_transitions ==
    { Edge("cancel_from_pending", "pending", "cancelled"),
      Edge("cancel_from_confirmed", "confirmed", "cancelled"),
      Edge("cancel_from_picking", "picking", "cancelled"),
      Edge("cancel_from_packed", "packed", "cancelled") }

ReturnEdges == { Edge("return_order", "delivered", "returned") }

halt_transitions ==
    { Edge("halt_from_pending", "pending", "halted"),
      Edge("halt_from_confirmed", "confirmed", "halted"),
      Edge("halt_from_picking", "picking", "halted"),
      Edge("halt_from_packed", "packed", "halted") }

resume_transitions ==
    { Edge("resume_to_pending", "halted", "pending"),
      Edge("resume_to_confirmed", "halted", "confirmed"),
      Edge("resume_to_picking", "halted", "picking"),
      Edge("resume_to_packed", "halted", "packed") }

WorkflowGraph ==
    ForwardEdges \cup cancel_transitions \cup ReturnEdges
        \cup halt_transitions \cup resume_transitions

TransitionNames == { e.name : e \in WorkflowGraph }

\* Names a caller may send: every declared name and one undeclared name.
RequestNames == TransitionNames \cup {"invalid_transition"}

DeclaredEdge(s, d) == \E e \in WorkflowGraph : e.source = s /\ e.dest = d

\* apply(state, transitionName) -> newState | InvalidTransition
apply(state, t) ==
    IF \E e \in WorkflowGraph : e.name = t /\ e.source = state
    THEN (CHOOSE e \in WorkflowGraph : e.name = t /\ e.source = state).dest
    ELSE "InvalidTransition"

\* ------------------------------------------------------- permission table
\* a table that also lets the customer role request confirm
ROLE_PERMISSIONS_shared ==
    [ customer |-> { e.name : e \in cancel_transitions \cup ReturnEdges }
                      \cup {"confirm"},
      fulfillment |-> { e.name : e \in ForwardEdges \cup halt_transitions
                                          \cup resume_transitions } ]

ROLE_PERMISSIONS ==
    [ customer |-> { e.name : e \in cancel_transitions \cup ReturnEdges },
      fulfillment |-> { e.name : e \in ForwardEdges \cup halt_transitions
                                          \cup resume_transitions } ]

isPermitted(role, t) == t \in ROLE_PERMISSIONS[role]

\* the role values a request may carry besides the two roles
BadRoles == {"invalid_role"}

\* every request is checked for its role before any other processing:
\* the HTTP status of that check
validate_role(r) == IF r \in Roles THEN 200 ELSE 400

\* the available_transitions field of get-order for a role and a state:
\* the outgoing edges of the state that the role is permitted
available_transitions(r, state) ==
    { t \in TransitionNames :
        isPermitted(r, t) /\ apply(state, t) # "InvalidTransition" }

\* ------------------------------------------------------------------------
\* The state-machine service and its client (src/warehouse_client.py)
\* ------------------------------------------------------------------------

\* Client instances: each holds a role (sent as X-AGENT-ROLE) and is driven
\* by one worker with its own agent identifier.
Clients == {"f1", "f2", "c1"}

role(c) == IF c = "c1" THEN "customer" ELSE "fulfillment"

agent_id(c) == CASE c = "f1" -> "fulfillment-agent-001"
                 [] c = "f2" -> "test-worker-001"
                 [] OTHER    -> "customer-001"

Agents == { agent_id(c) : c \in Clients }

VARIABLES
    orders,        \* Order Store: sequence of orders, the order id is the index
    next_task_id,  \* number of Tasks created so far (task ids are 1, 2, ...)
    queues,        \* per role, the FIFO of queued Tasks (head = oldest)
    claims,        \* per agent id, the leased claim record (NoTask = none)
    cl,            \* per client: position inside its current call, its locals
    last           \* the last finished client call: what it raised / returned

smvars == <<orders, next_task_id, queues, claims, cl, last>>

\* A Task record: identifier, target order, transition name, permitted role.
Task(id, o, t, r) == [task_id |-> id, order_id |-> o, transition |-> t, role |-> r]

NoTask == [task_id |-> 0, order_id |-> 0, transition |-> "none", role |-> "none"]

Idle == [pc |-> "idle", in_pnt |-> FALSE, task |-> NoTask, S0 |-> "none",
         dirty |-> FALSE]

NoResult == [call |-> "none", exc |-> "none", action |-> "none"]

Result(call, exc, action) == [call |-> call, exc |-> exc, action |-> action]

\* _make_request without its 403 branch: raise_for_status reports the 403
make_request_no403(status) ==
    CASE status = 400 -> "ValueError"
      [] status = 404 -> "ValueError"
      [] status >= 400 -> "HTTPError"
      [] OTHER -> "none"

\* _make_request with the 403 branch raising ValueError like its neighbours
make_request_403_as_400(status) ==
    CASE status = 400 -> "ValueError"
      [] status = 403 -> "ValueError"
      [] status = 404 -> "ValueError"
      [] status >= 400 -> "HTTPError"
      [] OTHER -> "none"

\* _make_request without its 400 branch: raise_for_status reports the 400
make_request_no400(status) ==
    CASE status = 403 -> "PermissionError"
      [] status = 404 -> "ValueError"
      [] status >= 400 -> "HTTPError"
      [] OTHER -> "none"

\* _make_request without its 404 branch: raise_for_status reports the 404
make_request_no404(status) ==
    CASE status = 400 -> "ValueError"
      [] status = 403 -> "PermissionError"
      [] status >= 400 -> "HTTPError"
      [] OTHER -> "none"

\* _make_request with no branch of its own: raise_for_status reports every
\* error status
make_request_plain(status) ==
    IF status >= 400 THEN "HTTPError" ELSE "none"

\* _make_request: the exception the client raises for an HTTP status.
make_request(status) ==
    CASE status = 400 -> "ValueError"
      [] status = 403 -> "PermissionError"
      [] status = 404 -> "ValueError"
      [] status >= 400 -> "HTTPError"
      [] OTHER -> "none"

OrderIds == 1..MaxOrders
OrderExists(o) == o \in 1..Len(orders)
TaskIds == 1..MaxTasks

\* --------------------------------------------------------------- Order Store
NewOrder == [current_state |-> "pending", history |-> <<"pending">>]

\* createOrder: fresh id, current_state = pending, history seeded with pending.
create_order(c) ==
    /\ cl[c].pc = "idle"
    /\ Len(orders) < MaxOrders
    /\ orders' = Append(orders, NewOrder)
    /\ last' = Result("create_order", "none", "none")
    /\ UNCHANGED <<next_task_id, queues, claims, cl>>

\* ---------------------------------------------------------------- Task Queue
\* enqueue: append a Task to the tail of the role's queue.
enqueue(q, task) == Append(q, task)

\* claimNext handing out the newest Task of the FIFO
Oldest_newest(q) == q[Len(q)]

\* the oldest-queued Task of a FIFO, and the FIFO without it
Oldest(q) == Head(q)

\* claimNext reading the oldest Task without removing it from the FIFO
PopOldest_peek(q) == q

PopOldest(q) == Tail(q)

\* HTTP status of POST /orders/{id}/transition for a request by role r:
\* authorization first, then the order lookup and the legality check.
request_status(r, o, t) ==
    IF ~isPermitted(r, t) THEN 403
    ELSE IF ~OrderExists(o) THEN 404
    ELSE IF apply(orders[o].current_state, t) = "InvalidTransition" THEN 400
    ELSE 200

\* WarehouseClient.request_transition
request_transition(c, o, t) ==
    /\ cl[c].pc = "idle"
    /\ LET status == request_status(role(c), o, t) IN
       /\ last' = Result("request_transition", make_request(status), "none")
       /\ IF status = 200
          THEN /\ next_task_id < MaxTasks
               /\ next_task_id' = next_task_id + 1
               /\ queues' = [queues EXCEPT ![role(c)] =
                               enqueue(@, Task(next_task_id + 1, o, t, role(c)))]
          ELSE UNCHANGED <<next_task_id, queues>>
    /\ UNCHANGED <<orders, claims, cl>>

\* claimNext, one indivisible step of the store: pop the oldest queued Task
\* of the role and record it as the agent's claim.
claimNext(a, r) ==
    IF queues[r] = <<>>
    THEN UNCHANGED <<queues, claims>>
    ELSE /\ queues' = [queues EXCEPT ![r] = PopOldest(@)]
         /\ claims' = [claims EXCEPT ![a] = Oldest(queues[r])]

\* release that re-appends the Task but leaves the claim record in place
release_claims_kept(a) == claims

\* release: the claim table without the agent's claim
release_claims(a) == [claims EXCEPT ![a] = NoTask]

\* release, one indivisible step: remove the agent's claim and re-append the
\* Task to the tail of the role's queue.
release(a, r) ==
    IF claims[a] = NoTask
    THEN UNCHANGED <<queues, claims>>
    ELSE /\ claims' = release_claims(a)
         /\ queues' = [queues EXCEPT ![r] = enqueue(@, claims[a])]

release_status(a) == IF claims[a] = NoTask THEN 404 ELSE 200

\* an expiry that returns the Task to the tail of its role's queue
lease_expire_requeue(a) ==
    /\ claims[a] # NoTask
    /\ claims' = [claims EXCEPT ![a] = NoTask]
    /\ queues' = [queues EXCEPT ![claims[a].role] = enqueue(@, claims[a])]
    /\ UNCHANGED <<orders, next_task_id, cl, last>>

\* the store's own expiry of a lease: the claim record disappears
lease_expire(a) ==
    /\ claims[a] # NoTask
    /\ claims' = [claims EXCEPT ![a] = NoTask]
    /\ UNCHANGED <<orders, next_task_id, queues, cl, last>>

\* ---------------------------------------------------- Transition Coordinator
\* POST /queue/complete first looks up the agent's claim.
complete_status(a, tid) ==
    IF claims[a] = NoTask THEN 404
    ELSE IF claims[a].task_id # tid THEN 400
    ELSE 200

\* executeTransition step 1: read the order (snapshot S0) and watch it.
Snapshot(c, pnt) ==
    [pc |-> "executing", in_pnt |-> pnt, task |-> claims[agent_id(c)],
     S0 |-> orders[claims[agent_id(c)].order_id].current_state, dirty |-> FALSE]

\* executeTransition steps 3-5 on the snapshot: the HTTP status of the outcome.
execute_status(S0, t, dirty) ==
    IF apply(S0, t) = "InvalidTransition" THEN 400
    ELSE IF dirty THEN 409
    ELSE 200

\* the conditional write: current_state and history change together
WriteOrder(o, newState) ==
    [orders EXCEPT ![o] = [current_state |-> newState,
                           history |-> Append(@.history, newState)]]

\* every other coordinator that watches order o sees its record changed
Touch(c, o) ==
    [d \in Clients |->
        IF d # c /\ cl[d].pc = "executing" /\ cl[d].task.order_id = o
        THEN [cl[d] EXCEPT !.dirty = TRUE]
        ELSE cl[d]]

\* complete: remove the agent's claim record
complete(a) == [claims EXCEPT ![a] = NoTask]

\* process_next_task with the exception of complete_task swallowed
pnt_failed_never(exc) == FALSE

\* process_next_task catching only the HTTP errors of raise_for_status
pnt_failed_only_http(exc) == exc = "HTTPError"

\* process_next_task: did complete_task raise (the except branch)?
pnt_failed(exc) == exc # "none"

\* WarehouseClient.claim_next_task, called directly
claim_next_task(c) ==
    /\ cl[c].pc = "idle"
    /\ claimNext(agent_id(c), role(c))
    /\ last' = Result("claim_next_task", "none",
                      IF queues[role(c)] = <<>> THEN "no_task" ELSE "task")
    /\ UNCHANGED <<orders, next_task_id, cl>>

\* WarehouseClient.complete_task, called directly with any task id
complete_task(c, tid) ==
    /\ cl[c].pc = "idle"
    /\ LET exc == make_request(complete_status(agent_id(c), tid)) IN
       IF exc = "none"
       THEN /\ cl' = [cl EXCEPT ![c] = Snapshot(c, FALSE)]
            /\ UNCHANGED last
       ELSE /\ last' = Result("complete_task", exc, "none")
            /\ UNCHANGED cl
    /\ UNCHANGED <<orders, next_task_id, queues, claims>>

\* process_next_task without its "'task' not in claim_result" return
process_next_task_nocheck(c) ==
    /\ cl[c].pc = "idle"
    /\ claimNext(agent_id(c), role(c))
    /\ cl' = [cl EXCEPT ![c] =
                [Idle EXCEPT !.pc = "claimed", !.in_pnt = TRUE,
                             !.task = IF queues[role(c)] = <<>> THEN NoTask
                                      ELSE Oldest(queues[role(c)])]]
    /\ UNCHANGED <<orders, next_task_id, last>>

\* process_next_task, first half: claim the next task of the client's role
process_next_task(c) ==
    /\ cl[c].pc = "idle"
    /\ claimNext(agent_id(c), role(c))
    /\ IF queues[role(c)] = <<>>
       THEN /\ last' = Result("process_next_task", "none", "no_task")
            /\ UNCHANGED cl
       ELSE /\ cl' = [cl EXCEPT ![c] =
                        [Idle EXCEPT !.pc = "claimed", !.in_pnt = TRUE,
                                     !.task = Oldest(queues[role(c)])]]
            /\ UNCHANGED last
    /\ UNCHANGED <<orders, next_task_id>>

\* process_next_task: complete_task(task['task_id'], agent_id); the server
\* looks up the claim and, when it matches, reads the order
pnt_complete(c) ==
    /\ cl[c].pc = "claimed"
    /\ LET exc == make_request(complete_status(agent_id(c), cl[c].task.task_id))
       IN IF exc = "none"
          THEN /\ cl' = [cl EXCEPT ![c] = Snapshot(c, TRUE)]
               /\ UNCHANGED last
          ELSE IF pnt_failed(exc)
          THEN /\ cl' = [cl EXCEPT ![c].pc = "failed"]
               /\ UNCHANGED last
          ELSE /\ cl' = [cl EXCEPT ![c] = Idle]
               /\ last' = Result("process_next_task", "none", "task_completed")
    /\ UNCHANGED <<orders, next_task_id, queues, claims>>

\* the end of POST /queue/complete: executeTransition's conditional write,
\* then complete (the claim record is removed) when it succeeded
executeTransition(c) ==
    /\ cl[c].pc = "executing"
    /\ LET o == cl[c].task.order_id
           t == cl[c].task.transition
           status == execute_status(cl[c].S0, t, cl[c].dirty)
           exc == make_request(status)
       IN
       /\ IF status = 200
          THEN /\ orders' = WriteOrder(o, apply(cl[c].S0, t))
               /\ claims' = complete(agent_id(c))
          ELSE UNCHANGED <<orders, claims>>
       /\ LET seen == IF status = 200 THEN Touch(c, o) ELSE cl IN
          IF cl[c].in_pnt
          THEN IF pnt_failed(exc)
               THEN /\ cl' = [seen EXCEPT ![c].pc = "failed"]
                    /\ UNCHANGED last
               ELSE /\ cl' = [seen EXCEPT ![c] = Idle]
                    /\ last' = Result("process_next_task", "none",
                                      "task_completed")
          ELSE /\ cl' = [seen EXCEPT ![c] = Idle]
               /\ last' = Result("complete_task", exc, "none")
    /\ UNCHANGED <<next_task_id, queues>>

\* process_next_task, except branch: release the task, report task_failed
pnt_release(c) ==
    /\ cl[c].pc = "failed"
    /\ release(agent_id(c), role(c))
    /\ cl' = [cl EXCEPT ![c] = Idle]
    /\ last' = Result("process_next_task", "none", "task_failed")
    /\ UNCHANGED <<orders, next_task_id>>

\* WarehouseClient.release_task, called directly
release_task(c) ==
    /\ cl[c].pc = "idle"
    /\ release(agent_id(c), role(c))
    /\ last' = Result("release_task",
                      make_request(release_status(agent_id(c))), "none")
    /\ UNCHANGED <<orders, next_task_id, cl>>

\* WarehouseClient.release_task(agent_id, reason) called with the identifier
\* of any agent: the role sent is the client's own
release_task_for(c, a) ==
    /\ cl[c].pc = "idle"
    /\ release(a, role(c))
    /\ last' = Result("release_task", make_request(release_status(a)), "none")
    /\ UNCHANGED <<orders, next_task_id, cl>>

\* request_transition followed at once by process_next_task, as one client
\* runs them one after the other while the queues are empty and no other
\* call is under way: the Task is enqueued, claimed, executed and completed
transition_then_process(c, o, t) ==
    /\ \A d \in Clients : cl[d].pc = "idle"
    /\ \A r \in Roles : queues[r] = <<>>
    /\ claims[agent_id(c)] = NoTask
    /\ request_status(role(c), o, t) = 200
    /\ Len(orders[o].history) <= MaxPath
    /\ next_task_id' = next_task_id + 1
    /\ orders' = WriteOrder(o, apply(orders[o].current_state, t))
    /\ last' = Result("process_next_task",
                      make_request(execute_status(orders[o].current_state,
                                                  t, FALSE)),
                      "task_completed")
    /\ UNCHANGED <<queues, claims, cl>>

\* ------------------------------------------------ reading orders and queues
\* GET /orders/{id} as the service answers a client of role r
get_order(r, o) ==
    [current_state |-> orders[o].current_state,
     available_transitions |->
         available_transitions(r, orders[o].current_state)]

\* get_available_transitions reading a key the order record does not have:
\* order.get(...) falls back to the empty list
get_available_transitions_default(c, o) == {}

\* WarehouseClient.get_available_transitions
get_available_transitions(c, o) == get_order(role(c), o).available_transitions

\* WarehouseClient.can_perform_transition
can_perform_transition(c, o, t) == t \in get_available_transitions(c, o)

\* status(), served as GET /queue/status: the counts at the instant it is
\* taken
queue_status ==
    LET processing == Cardinality({ a \in Agents : claims[a] # NoTask })
        queued == Len(queues["customer"]) + Len(queues["fulfillment"])
    IN [customer_queued |-> Len(queues["customer"]),
        fulfillment_queued |-> Len(queues["fulfillment"]),
        total_queued |-> queued,
        total_processing |-> processing,
        total_tasks |-> queued + processing]

\* WarehouseClient.get_queue_status
get_queue_status == queue_status

\* _get_queue_size reading total_tasks instead of total_queued
get_queue_size_total == get_queue_status.total_tasks

\* EnhancedWarehouseModel._get_queue_size
get_queue_size == get_queue_status.total_queued

\* WarehouseClient.list_orders by a client constructed with role r: the
\* constructor stores any role and sends it as X-AGENT-ROLE
list_orders(r) ==
    /\ last' = Result("list_orders", make_request(validate_role(r)), "none")
    /\ UNCHANGED <<orders, next_task_id, queues, claims, cl>>

\* WarehouseClient.create_order by a client constructed with role r
create_order_as(r) ==
    /\ LET status == validate_role(r) IN
       /\ last' = Result("create_order", make_request(status), "none")
       /\ IF status = 200
          THEN /\ Len(orders) < MaxOrders
               /\ orders' = Append(orders, NewOrder)
          ELSE UNCHANGED orders
    /\ UNCHANGED <<next_task_id, queues, claims, cl>>

Init ==
    /\ orders = <<>>
    /\ next_task_id = 0
    /\ queues = [r \in Roles |-> <<>>]
    /\ claims = [a \in Agents |-> NoTask]
    /\ cl = [c \in Clients |-> Idle]
    /\ last = NoResult


\* ------------------------------------------------------------------------
\* The order endpoints of src/app.py over the Redis store
\* ------------------------------------------------------------------------

\* Request handlers that may overlap; each Redis command is one step.
Procs == {"p1", "p2"}

VARIABLES
    r_order_id,       \* the counter key "order_id" (INCR)
    r_orders,         \* the set key "orders"
    r_order,          \* per order id, the hash "order:{id}" (no field = no key)
    r_order_history,  \* per order id, the list "order_history:{id}", newest first
    applied,          \* per order id, how many status changes were recorded
    req               \* per handler: the endpoint it runs, its locals, its place

appvars == <<r_order_id, r_orders, r_order, r_order_history, applied, req>>

AppOrderIds == 1..MaxOrderId

\* the statuses PATCH /orders/{id} is asked to set in this model
UpdateStatuses == {"cancelled", "delivered"}

\* the customer_name values it is given ("None": the field is not sent)
UpdateNames == {"None", "Bob"}

NoKey == [f \in {} |-> "none"]

exists(h) == DOMAIN h # {}

\* HSET key field value
hset(h, field, value) ==
    [f \in DOMAIN h \cup {field} |-> IF f = field THEN value ELSE h[f]]

\* dict.get(field): None when the field is absent
hget(h, field) == IF field \in DOMAIN h THEN h[field] ELSE "None"

\* LPUSH: the new element becomes the head of the list
lpush(list, e) == <<e>> \o list

RECURSIVE reversed(_)
reversed(list) ==
    IF list = <<>> THEN <<>> ELSE Append(reversed(Tail(list)), Head(list))

\* get_order_history: the list reversed, oldest entry first
get_order_history(o) == reversed(r_order_history[o])

\* add_status_to_history: LPUSH of {status, timestamp, notes}
add_status_to_history(o, status, notes) ==
    [r_order_history EXCEPT ![o] =
        lpush(@, [status |-> status, notes |-> notes])]

\* update_fulfillment_timestamp: status -> the hash field it stamps
timestamp_mapping ==
    [pending |-> "placed_at", confirmed |-> "confirmed_at",
     picking |-> "picked_at", packed |-> "packed_at",
     shipped |-> "shipped_at", delivered |-> "delivered_at",
     cancelled |-> "cancelled_at"]

update_fulfillment_timestamp(h, status) ==
    IF status \in DOMAIN timestamp_mapping
    THEN hset(h, timestamp_mapping[status], "ts")
    ELSE h

\* a progression table whose first step skips confirmed
workflow_skip ==
    [pending |-> "picking", confirmed |-> "picking", picking |-> "packed",
     packed |-> "shipped", shipped |-> "delivered"]

\* advance_order_status: the workflow progression table
workflow ==
    [pending |-> "confirmed", confirmed |-> "picking", picking |-> "packed",
     packed |-> "shipped", shipped |-> "delivered"]

\* create_order: the mapping written by the first HSET
new_order_data(o, name) ==
    [order_id |-> "id", customer_name |-> name, items |-> "items",
     status |-> "pending", notes |-> "notes", created_at |-> "ts",
     updated_at |-> "ts", placed_at |-> "ts"]

\* get_order_response reads these fields with data[...]: KeyError when absent
ResponseFields ==
    {"order_id", "customer_name", "items", "status", "created_at", "updated_at"}

get_order_response(h) == IF ResponseFields \subseteq DOMAIN h THEN 200 ELSE 500

IdleReq == [pc |-> "idle", op |-> "none", order_id |-> 0,
            current_status |-> "None", customer_name |-> "None",
            status |-> "None", result |-> 0]

\* a handler starts on order o with the request body (customer_name, status)
Start(p, op, o, name, status, pc) ==
    [req EXCEPT ![p] = [IdleReq EXCEPT !.pc = pc, !.op = op, !.order_id = o,
                                       !.customer_name = name,
                                       !.status = status]]

Goto(p, pc) == [req EXCEPT ![p].pc = pc]

\* the handler returns `code`; its locals stay readable until its next request
Return(p, code) == [req EXCEPT ![p].pc = "idle", ![p].result = code]

\* the model stops starting status-changing requests on an order whose
\* history has MaxHist entries
Budget(o) == Len(r_order_history[o]) < MaxHist /\ applied[o] < MaxHist

InitApp ==
    /\ r_order_id = 0
    /\ r_orders = {}
    /\ r_order = [o \in AppOrderIds |-> NoKey]
    /\ r_order_history = [o \in AppOrderIds |-> <<>>]
    /\ applied = [o \in AppOrderIds |-> 0]
    /\ req = [p \in Procs |-> IdleReq]

\* ------------------------------------------------------- POST /orders
\* a create_order that reads the counter with GET and adds one itself,
\* without writing it back
create_order_get(p, name) ==
    /\ req[p].pc = "idle"
    /\ r_order_id + 1 \in DOMAIN r_order
    /\ req' = Start(p, "create_order", r_order_id + 1, name, "None", "co_hset")
    /\ UNCHANGED <<r_order_id, r_orders, r_order, r_order_history, applied>>

\* order_id = r.incr("order_id"); the model creates orders while the store
\* it starts with has room for the new id
create_order_incr(p, name) ==
    /\ req[p].pc = "idle"
    /\ r_order_id + 1 \in DOMAIN r_order
    /\ r_order_id' = r_order_id + 1
    /\ req' = Start(p, "create_order", r_order_id + 1, name, "None", "co_hset")
    /\ UNCHANGED <<r_orders, r_order, r_order_history, applied>>

create_order_hset(p) ==
    /\ req[p].pc = "co_hset"
    /\ r_order' = [r_order EXCEPT ![req[p].order_id] =
                     new_order_data(req[p].order_id, req[p].customer_name)]
    /\ req' = Goto(p, "co_sadd")
    /\ UNCHANGED <<r_order_id, r_orders, r_order_history, applied>>

create_order_sadd(p) ==
    /\ req[p].pc = "co_sadd"
    /\ r_orders' = r_orders \cup {req[p].order_id}
    /\ req' = Goto(p, "co_history")
    /\ UNCHANGED <<r_order_id, r_order, r_order_history, applied>>

create_order_history(p) ==
    /\ req[p].pc = "co_history"
    /\ r_order_history' =
          add_status_to_history(req[p].order_id, "pending", "Order created")
    /\ req' = Goto(p, "respond")
    /\ UNCHANGED <<r_order_id, r_orders, r_order, applied>>

\* the closing get_order_response(order_id) of create, update and advance
respond(p) ==
    /\ req[p].pc = "respond"
    /\ req' = Return(p, get_order_response(r_order[req[p].order_id]))
    /\ UNCHANGED <<r_order_id, r_orders, r_order, r_order_history, applied>>

\* ------------------------------------------------- PATCH /orders/{id}
\* where update_order goes after reading the current status
after_basic(name, status, current_status) ==
    IF name # "None" THEN "uo_name"
    ELSE IF status # "None" /\ status # current_status THEN "uo_status"
    ELSE "uo_updated"

update_order_exists(p, o, name, status) ==
    /\ req[p].pc = "idle"
    /\ Budget(o)
    /\ IF exists(r_order[o])
       THEN req' = Start(p, "update_order", o, name, status, "uo_hgetall")
       ELSE req' = [Start(p, "update_order", o, name, status, "idle")
                       EXCEPT ![p].result = 404]
    /\ UNCHANGED <<r_order_id, r_orders, r_order, r_order_history, applied>>

update_order_hgetall(p) ==
    /\ req[p].pc = "uo_hgetall"
    /\ LET cur == hget(r_order[req[p].order_id], "status") IN
       req' = [req EXCEPT ![p].current_status = cur,
                          ![p].pc = after_basic(req[p].customer_name,
                                                req[p].status, cur)]
    /\ UNCHANGED <<r_order_id, r_orders, r_order, r_order_history, applied>>

update_order_name(p) ==
    /\ req[p].pc = "uo_name"
    /\ r_order' = [r_order EXCEPT ![req[p].order_id] =
                     hset(@, "customer_name", req[p].customer_name)]
    /\ req' = Goto(p, after_basic("None", req[p].status, req[p].current_status))
    /\ UNCHANGED <<r_order_id, r_orders, r_order_history, applied>>

update_order_status(p) ==
    /\ req[p].pc = "uo_status"
    /\ r_order' = [r_order EXCEPT ![req[p].order_id] =
                     hset(@, "status", req[p].status)]
    /\ req' = Goto(p, "uo_timestamp")
    /\ UNCHANGED <<r_order_id, r_orders, r_order_history, applied>>

update_order_timestamp(p) ==
    /\ req[p].pc = "uo_timestamp"
    /\ r_order' = [r_order EXCEPT ![req[p].order_id] =
                     update_fulfillment_timestamp(@, req[p].status)]
    /\ req' = Goto(p, "uo_history")
    /\ UNCHANGED <<r_order_id, r_orders, r_order_history, applied>>

update_order_history(p) ==
    /\ req[p].pc = "uo_history"
    /\ r_order_history' =
          add_status_to_history(req[p].order_id, req[p].status, "Status changed")
    /\ applied' = [applied EXCEPT ![req[p].order_id] = @ + 1]
    /\ req' = Goto(p, "uo_updated")
    /\ UNCHANGED <<r_order_id, r_orders, r_order>>

update_order_updated(p) ==
    /\ req[p].pc = "uo_updated"
    /\ r_order' = [r_order EXCEPT ![req[p].order_id] =
                     hset(@, "updated_at", "ts")]
    /\ req' = Goto(p, "respond")
    /\ UNCHANGED <<r_order_id, r_orders, r_order_history, applied>>

\* ------------------------------------------- POST /orders/{id}/advance
advance_order_status_exists(p, o) ==
    /\ req[p].pc = "idle"
    /\ Budget(o)
    /\ IF exists(r_order[o])
       THEN req' = Start(p, "advance_order_status", o, "None", "None",
                         "ao_hgetall")
       ELSE req' = [Start(p, "advance_order_status", o, "None", "None", "idle")
                       EXCEPT ![p].result = 404]
    /\ UNCHANGED <<r_order_id, r_orders, r_order, r_order_history, applied>>

advance_order_status_hgetall(p) ==
    /\ req[p].pc = "ao_hgetall"
    /\ LET cur == hget(r_order[req[p].order_id], "status") IN
       IF cur \in DOMAIN workflow
       THEN req' = [req EXCEPT ![p].current_status = cur,
                               ![p].status = workflow[cur],
                               ![p].pc = "ao_status"]
       ELSE req' = [req EXCEPT ![p].current_status = cur,
                               ![p].pc = "idle", ![p].result = 400]
    /\ UNCHANGED <<r_order_id, r_orders, r_order, r_order_history, applied>>

advance_order_status_status(p) ==
    /\ req[p].pc = "ao_status"
    /\ r_order' = [r_order EXCEPT ![req[p].order_id] =
                     hset(@, "status", req[p].status)]
    /\ req' = Goto(p, "ao_timestamp")
    /\ UNCHANGED <<r_order_id, r_orders, r_order_history, applied>>

\* the two timestamp writes, HSET updated_at and the workflow timestamp, as
\* one step: no handler reads either field to decide anything
advance_order_status_timestamp(p) ==
    /\ req[p].pc = "ao_timestamp"
    /\ r_order' = [r_order EXCEPT ![req[p].order_id] =
                     update_fulfillment_timestamp(hset(@, "updated_at", "ts"),
                                                  req[p].status)]
    /\ req' = Goto(p, "ao_history")
    /\ UNCHANGED <<r_order_id, r_orders, r_order_history, applied>>

advance_order_status_history(p) ==
    /\ req[p].pc = "ao_history"
    /\ r_order_history' =
          add_status_to_history(req[p].order_id, req[p].status, "Order advanced")
    /\ applied' = [applied EXCEPT ![req[p].order_id] = @ + 1]
    /\ req' = Goto(p, "respond")
    /\ UNCHANGED <<r_order_id, r_orders, r_order>>

\* ------------------------------------------------ DELETE /orders/{id}
delete_order_exists(p, o) ==
    /\ req[p].pc = "idle"
    /\ IF exists(r_order[o])
       THEN req' = Start(p, "delete_order", o, "None", "None", "do_history")
       ELSE req' = [Start(p, "delete_order", o, "None", "None", "idle")
                       EXCEPT ![p].result = 404]
    /\ UNCHANGED <<r_order_id, r_orders, r_order, r_order_history, applied>>

delete_order_history(p) ==
    /\ req[p].pc = "do_history"
    /\ r_order_history' =
          add_status_to_history(req[p].order_id, "cancelled", "Order deleted")
    /\ req' = Goto(p, "do_delete")
    /\ UNCHANGED <<r_order_id, r_orders, r_order, applied>>

delete_order_delete(p) ==
    /\ req[p].pc = "do_delete"
    /\ r_order' = [r_order EXCEPT ![req[p].order_id] = NoKey]
    /\ req' = Goto(p, "do_delete_history")
    /\ UNCHANGED <<r_order_id, r_orders, r_order_history, applied>>

delete_order_delete_history(p) ==
    /\ req[p].pc = "do_delete_history"
    /\ r_order_history' = [r_order_history EXCEPT ![req[p].order_id] = <<>>]
    /\ req' = Goto(p, "do_srem")
    /\ UNCHANGED <<r_order_id, r_orders, r_order, applied>>

delete_order_srem(p) ==
    /\ req[p].pc = "do_srem"
    /\ r_orders' = r_orders \ {req[p].order_id}
    /\ req' = Return(p, 200)
    /\ UNCHANGED <<r_order_id, r_order, r_order_history, applied>>

\* --------------------------------------------------- GET /orders/{id}
get_order_exists(p, o) ==
    /\ req[p].pc = "idle"
    /\ IF exists(r_order[o])
       THEN req' = Start(p, "get_order", o, "None", "None", "go_hgetall")
       ELSE req' = [Start(p, "get_order", o, "None", "None", "idle")
                       EXCEPT ![p].result = 404]
    /\ UNCHANGED <<r_order_id, r_orders, r_order, r_order_history, applied>>

\* get_order_response: data = r.hgetall(...); a hash without the fields
\* OrderOut needs ends in a KeyError whatever the history holds
get_order_hgetall(p) ==
    /\ req[p].pc = "go_hgetall"
    /\ IF get_order_response(r_order[req[p].order_id]) = 200
       THEN req' = [req EXCEPT ![p].pc = "go_lrange",
                               ![p].current_status =
                                   hget(r_order[req[p].order_id], "status")]
       ELSE req' = Return(p, 500)
    /\ UNCHANGED <<r_order_id, r_orders, r_order, r_order_history, applied>>

\* get_order_response: history = get_order_history(order_id), then the
\* OrderOut built from the data read before is returned
get_order_lrange(p) ==
    /\ req[p].pc = "go_lrange"
    /\ req' = Return(p, 200)
    /\ UNCHANGED <<r_order_id, r_orders, r_order, r_order_history, applied>>

\* ------------------------------------------------------------------------
\* The round trip of an order's fields through src/app.py
\* ------------------------------------------------------------------------

\* A Python string is a sequence of one-character strings; the characters
\* an item name is made of in this model
Chars == {"w", ","}

\* the strings of at most n characters
StringsUpTo(n) == UNION { [1..k -> Chars] : k \in 0..n }

ItemNames == StringsUpTo(MaxNameLen)

\* the item lists a POST /orders body may carry
ItemLists == UNION { [1..k -> ItemNames] : k \in 0..MaxItems }

CustomerNames == {"Alice", "Bob"}

VARIABLES
    rt_in,     \* the OrderIn posted (customer_name, items), NoKey before
    rt_data,   \* the hash order:{id} written by create_order (NoKey before)
    rt_out     \* the OrderOut returned by GET /orders/{id} (NoKey before)

rtvars == <<rt_in, rt_data, rt_out>>

\* ",".join(items)
RECURSIVE join(_)
join(items) ==
    IF items = <<>> THEN <<>>
    ELSE IF Len(items) = 1 THEN items[1]
    ELSE items[1] \o <<",">> \o join(Tail(items))

\* str.split(","): cut at every comma; the empty string gives [""]
RECURSIVE split(_)
split(str) ==
    IF \E i \in 1..Len(str) : str[i] = ","
    THEN LET i == CHOOSE k \in 1..Len(str) :
                     str[k] = "," /\ \A j \in 1..(k - 1) : str[j] # ","
         IN <<SubSeq(str, 1, i - 1)>> \o split(SubSeq(str, i + 1, Len(str)))
    ELSE <<str>>

\* create_order: the fields of the mapping that come from the request body
order_data(order) ==
    [customer_name |-> order.customer_name, items |-> join(order.items),
     status |-> "pending"]

\* get_order_response: the OrderOut built from the hash; an empty items
\* string is falsy and gives the empty list
OrderOut(data) ==
    [customer_name |-> data.customer_name,
     items |-> IF data.items # <<>> THEN split(data.items) ELSE <<>>,
     status |-> data.status]

InitRoundTrip ==
    /\ rt_in = NoKey
    /\ rt_data = NoKey
    /\ rt_out = NoKey

\* POST /orders with the body (name, items)
post_order(name, items) ==
    /\ rt_data = NoKey
    /\ rt_in' = [customer_name |-> name, items |-> items]
    /\ rt_data' = order_data(rt_in')
    /\ UNCHANGED rt_out

\* GET /orders/{id} of the order created
read_order ==
    /\ rt_data # NoKey
    /\ rt_out = NoKey
    /\ rt_out' = OrderOut(rt_data)
    /\ UNCHANGED <<rt_in, rt_data>>

\* ------------------------------------------------------------------------
\* POST /baskets/{customer_id}/items of src/app.py, one customer, one item
\* ------------------------------------------------------------------------

\* the quantities a BasketItemIn carries in this model
Quantities == {1, 2}

VARIABLES
    r_basket,          \* the hash "basket:{customer_id}" (NoKey = no key)
    r_basket_item,     \* the hash "basket_item:{customer_id}:{item_id}"
    r_basket_items,    \* the set "basket_items:{customer_id}"
    added,             \* the sum of the quantities of the calls made so far
    calls,             \* how many calls were made so far
    breq               \* per handler: its place, quantity and current_qty

bkvars == <<r_basket, r_basket_item, r_basket_items, added, calls, breq>>

IdleBasketReq == [pc |-> "idle", quantity |-> 0, current_qty |-> 0]

\* add_to_basket: the mapping of a basket item that is new to the basket
basket_item_data(quantity) ==
    [item_id |-> "item", quantity |-> quantity, unit_price |-> "price",
     added_at |-> "ts"]

InitBasket ==
    /\ r_basket = NoKey
    /\ r_basket_item = NoKey
    /\ r_basket_items = {}
    /\ added = 0
    /\ calls = 0
    /\ breq = [p \in Procs |-> IdleBasketReq]

\* the request arrives; the customer and the item exist
add_to_basket_exists(p, quantity) ==
    /\ breq[p].pc = "idle"
    /\ calls < MaxAdds
    /\ calls' = calls + 1
    /\ added' = added + quantity
    /\ breq' = [breq EXCEPT ![p] = [pc |-> "ab_basket_exists",
                                     quantity |-> quantity, current_qty |-> 0]]
    /\ UNCHANGED <<r_basket, r_basket_item, r_basket_items>>

\* if not r.exists(basket_key)
add_to_basket_basket_exists(p) ==
    /\ breq[p].pc = "ab_basket_exists"
    /\ breq' = [breq EXCEPT ![p].pc =
                   IF exists(r_basket) THEN "ab_basket_touch"
                   ELSE "ab_basket_create"]
    /\ UNCHANGED <<r_basket, r_basket_item, r_basket_items, added, calls>>

\* r.hset(basket_key, mapping=basket_data), or the HSET of updated_at
add_to_basket_basket_hset(p) ==
    /\ breq[p].pc \in {"ab_basket_create", "ab_basket_touch"}
    /\ r_basket' = IF breq[p].pc = "ab_basket_create"
                   THEN [basket_id |-> "id", customer_id |-> "id",
                         created_at |-> "ts", updated_at |-> "ts"]
                   ELSE hset(r_basket, "updated_at", "ts")
    /\ breq' = [breq EXCEPT ![p].pc = "ab_item_exists"]
    /\ UNCHANGED <<r_basket_item, r_basket_items, added, calls>>

\* if r.exists(basket_item_key)
add_to_basket_item_exists(p) ==
    /\ breq[p].pc = "ab_item_exists"
    /\ breq' = [breq EXCEPT ![p].pc =
                   IF exists(r_basket_item) THEN "ab_hget" ELSE "ab_hgetall"]
    /\ UNCHANGED <<r_basket, r_basket_item, r_basket_items, added, calls>>

\* current_qty = int(r.hget(basket_item_key, "quantity"))
add_to_basket_hget(p) ==
    /\ breq[p].pc = "ab_hget"
    /\ breq' = [breq EXCEPT ![p].current_qty = r_basket_item.quantity,
                            ![p].pc = "ab_hset"]
    /\ UNCHANGED <<r_basket, r_basket_item, r_basket_items, added, calls>>

\* r.hset(basket_item_key, "quantity", str(current_qty + quantity))
add_to_basket_hset(p) ==
    /\ breq[p].pc = "ab_hset"
    /\ r_basket_item' = hset(r_basket_item, "quantity",
                             breq[p].current_qty + breq[p].quantity)
    /\ breq' = [breq EXCEPT ![p].pc = "idle"]
    /\ UNCHANGED <<r_basket, r_basket_items, added, calls>>

\* item_data = r.hgetall(item_key)
add_to_basket_hgetall(p) ==
    /\ breq[p].pc = "ab_hgetall"
    /\ breq' = [breq EXCEPT ![p].pc = "ab_hset_new"]
    /\ UNCHANGED <<r_basket, r_basket_item, r_basket_items, added, calls>>

\* r.hset(basket_item_key, mapping=basket_item_data)
add_to_basket_hset_new(p) ==
    /\ breq[p].pc = "ab_hset_new"
    /\ r_basket_item' = basket_item_data(breq[p].quantity)
    /\ breq' = [breq EXCEPT ![p].pc = "ab_sadd"]
    /\ UNCHANGED <<r_basket, r_basket_items, added, calls>>

\* r.sadd(basket_items_key, item_id)
add_to_basket_sadd(p) ==
    /\ breq[p].pc = "ab_sadd"
    /\ r_basket_items' = r_basket_items \cup {"item"}
    /\ breq' = [breq EXCEPT ![p].pc = "idle"]
    /\ UNCHANGED <<r_basket, r_basket_item, added, calls>>

\* ------------------------------------------------------------------------
\* Listing orders through src/warehouse_client.py
\* ------------------------------------------------------------------------

\* WarehouseClient.list_orders(limit=50): the default limit
list_orders_limit == 50

VARIABLES
    ls_before,   \* how many orders other customers created before order o
    ls_mine,     \* TRUE once create_order for customer N has returned o
    ls_after,    \* how many orders other customers created after order o
    ls_result    \* the last result of get_my_orders(N): called, order ids

lsvars == <<ls_before, ls_mine, ls_after, ls_result>>

\* the number of orders in the store; their ids are 1, 2, ... in creation order
store_size == ls_before + (IF ls_mine THEN 1 ELSE 0) + ls_after

\* the id create_order returned for customer N
my_order_id == ls_before + 1

\* the customer_name of order i
customer_name_of(i) ==
    IF ls_mine /\ i = my_order_id THEN "N" ELSE "Other"

\* listOrders(limit): at most `limit` of the known orders; the service may
\* answer with the oldest or with the newest ones
listOrders(limit, newest) ==
    IF store_size <= limit THEN 1..store_size
    ELSE IF newest THEN (store_size - limit + 1)..store_size
    ELSE 1..limit

\* WarehouseClient.get_my_orders: list_orders() filtered by customer_name
my_orders(customer_name, newest) ==
    { i \in listOrders(list_orders_limit, newest) :
        customer_name_of(i) = customer_name }

InitList ==
    /\ ls_before = 0
    /\ ls_mine = FALSE
    /\ ls_after = 0
    /\ ls_result = [called |-> FALSE, orders |-> {}]

\* create_order by another customer
create_order_other ==
    /\ store_size < MaxStore
    /\ IF ls_mine
       THEN ls_after' = ls_after + 1 /\ UNCHANGED ls_before
       ELSE ls_before' = ls_before + 1 /\ UNCHANGED ls_after
    /\ UNCHANGED <<ls_mine, ls_result>>

\* create_order for customer N returns order o
create_order_mine ==
    /\ ~ls_mine
    /\ store_size < MaxStore
    /\ ls_mine' = TRUE
    /\ UNCHANGED <<ls_before, ls_after, ls_result>>

\* get_my_orders(N) after create_order returned o
get_my_orders(newest) ==
    /\ ls_mine
    /\ ls_result' = [called |-> TRUE, orders |-> my_orders("N", newest)]
    /\ UNCHANGED <<ls_before, ls_mine, ls_after>>

\* ------------------------------------------------------------------------
\* WarehouseClient.run_worker
\* ------------------------------------------------------------------------

\* the client that runs in worker mode
Worker == "f2"

VARIABLES
    rw   \* run_worker's place and locals: max_tasks, task_count,
         \* processed_tasks (the action of each result), whether it has
         \* polled, and how many Tasks its polls claimed

rwvars == <<rw>>

WorkerOff == [pc |-> "off", max_tasks |-> 0, task_count |-> 0,
              processed_tasks |-> <<>>, polled |-> FALSE, claimed |-> 0]

InitWorker == rw = WorkerOff

\* a loop test that lets one more iteration through
run_worker_while_le(task_count, max_tasks) == task_count <= max_tasks

\* run_worker: while max_tasks is None or task_count < max_tasks
run_worker_while(task_count, max_tasks) == task_count < max_tasks

\* run_worker(agent_id, max_tasks): processed_tasks = [], task_count = 0
run_worker(c, max_tasks) ==
    /\ rw.pc = "off"
    /\ cl[c].pc = "idle"
    /\ rw' = [WorkerOff EXCEPT !.pc = "loop", !.max_tasks = max_tasks]
    /\ UNCHANGED smvars

\* one iteration begins: process_next_task claims; with no task the loop
\* breaks when task_count is 0 and otherwise sleeps and polls again
run_worker_poll(c) ==
    /\ rw.pc = "loop"
    /\ run_worker_while(rw.task_count, rw.max_tasks)
    /\ process_next_task(c)
    /\ rw' = IF queues[role(c)] = <<>>
             THEN [rw EXCEPT !.polled = TRUE,
                             !.pc = IF rw.task_count = 0 THEN "returned"
                                    ELSE "loop"]
             ELSE [rw EXCEPT !.polled = TRUE, !.claimed = @ + 1]

\* process_next_task goes on; when it returns task_completed or task_failed
\* the result is appended and task_count grows by one
run_worker_step(c) ==
    /\ rw.pc = "loop"
    /\ cl[c].pc # "idle"
    /\ pnt_complete(c) \/ executeTransition(c) \/ pnt_release(c)
    /\ rw' = IF cl'[c].pc = "idle"
             THEN [rw EXCEPT !.task_count = @ + 1,
                             !.processed_tasks = Append(@, last'.action)]
             ELSE rw

\* the loop test fails: return processed_tasks
run_worker_return(c) ==
    /\ rw.pc = "loop"
    /\ cl[c].pc = "idle"
    /\ ~run_worker_while(rw.task_count, rw.max_tasks)
    /\ rw' = [rw EXCEPT !.pc = "returned"]
    /\ UNCHANGED smvars

\* ------------------------------------------------------------------------
\* Identifiers: POST /orders of src/app.py beside the service's enqueue
\* ------------------------------------------------------------------------

\* the order ids the store has room for when only orders are created
CreatedIds == 1..MaxCreated

\* the empty Redis store with room for MaxCreated orders
InitCreate ==
    /\ r_order_id = 0
    /\ r_orders = {}
    /\ r_order = [o \in CreatedIds |-> NoKey]
    /\ r_order_history = [o \in CreatedIds |-> <<>>]
    /\ applied = [o \in CreatedIds |-> 0]
    /\ req = [p \in Procs |-> IdleReq]

\* ------------------------------------------------------------------------
\* The customer endpoints of src/app.py
\* ------------------------------------------------------------------------

\* the email addresses and names the requests carry ("None": not sent)
Emails == {"a@example.com", "b@example.com"}

CustomerUpdateNames == {"None", "Bob"}

VARIABLES
    r_customer_id,  \* the counter key "customer_id" (INCR)
    r_customers,    \* the set key "customers"
    r_customer,     \* per customer id, the hash "customer:{id}"
    creq            \* per handler: the endpoint it runs, its locals, its place

cuvars == <<r_customer_id, r_customers, r_customer, creq>>

CustomerIds == 1..MaxCustomers

IdleCustomerReq == [pc |-> "idle", op |-> "none", customer_id |-> 0,
                    name |-> "None", email |-> "None",
                    existing_customers |-> {}, result |-> 0]

\* create_customer: the mapping written by its HSET
customer_data(name, email) ==
    [customer_id |-> "id", name |-> name, email |-> email, phone |-> "",
     address |-> "", created_at |-> "ts", is_active |-> "true"]

\* create_customer requests that have not yet taken their id
CreatingCustomers ==
    { q \in Procs : creq[q].op = "create_customer" /\ creq[q].pc = "cc_scan" }

InitCustomers ==
    /\ r_customer_id = 0
    /\ r_customers = {}
    /\ r_customer = [i \in CustomerIds |-> NoKey]
    /\ creq = [p \in Procs |-> IdleCustomerReq]

\* ------------------------------------------------------- POST /customers
\* existing_customers = r.smembers("customers")
create_customer_smembers(p, name, email) ==
    /\ creq[p].pc = "idle"
    /\ r_customer_id + Cardinality(CreatingCustomers) < MaxCustomers
    /\ creq' = [creq EXCEPT ![p] =
                  [IdleCustomerReq EXCEPT !.pc = "cc_scan",
                                          !.op = "create_customer",
                                          !.name = name, !.email = email,
                                          !.existing_customers = r_customers]]
    /\ UNCHANGED <<r_customer_id, r_customers, r_customer>>

\* one turn of the loop: existing_data = r.hgetall(f"customer:{cid}"); the
\* same email ends the request with 400
create_customer_hgetall(p) ==
    /\ creq[p].pc = "cc_scan"
    /\ \E cid \in creq[p].existing_customers :
          IF hget(r_customer[cid], "email") = creq[p].email
          THEN creq' = [creq EXCEPT ![p].pc = "idle", ![p].result = 400]
          ELSE creq' = [creq EXCEPT ![p].existing_customers = @ \ {cid}]
    /\ UNCHANGED <<r_customer_id, r_customers, r_customer>>

\* the loop found no such email: customer_id = r.incr("customer_id")
create_customer_incr(p) ==
    /\ creq[p].pc = "cc_scan"
    /\ creq[p].existing_customers = {}
    /\ r_customer_id' = r_customer_id + 1
    /\ creq' = [creq EXCEPT ![p].pc = "cc_hset",
                            ![p].customer_id = r_customer_id + 1]
    /\ UNCHANGED <<r_customers, r_customer>>

\* r.hset(f"customer:{customer_id}", mapping=data)
create_customer_hset(p) ==
    /\ creq[p].pc = "cc_hset"
    /\ r_customer' = [r_customer EXCEPT ![creq[p].customer_id] =
                         customer_data(creq[p].name, creq[p].email)]
    /\ creq' = [creq EXCEPT ![p].pc = "cc_sadd"]
    /\ UNCHANGED <<r_customer_id, r_customers>>

\* r.sadd("customers", customer_id); the response
create_customer_sadd(p) ==
    /\ creq[p].pc = "cc_sadd"
    /\ r_customers' = r_customers \cup {creq[p].customer_id}
    /\ creq' = [creq EXCEPT ![p].pc = "idle", ![p].result = 200]
    /\ UNCHANGED <<r_customer_id, r_customer>>

\* ------------------------------------------- PATCH /customers/{customer_id}
\* where update_customer goes on after the name has been dealt with
after_name(email) == IF email # "None" THEN "uc_email" ELSE "uc_hgetall"

\* if not r.exists(key): 404
update_customer_exists(p, cid, name, email) ==
    /\ creq[p].pc = "idle"
    /\ creq' = [creq EXCEPT ![p] =
                  [IdleCustomerReq EXCEPT
                      !.op = "update_customer", !.customer_id = cid,
                      !.name = name, !.email = email,
                      !.pc = IF ~exists(r_customer[cid]) THEN "idle"
                             ELSE IF name # "None" THEN "uc_name"
                             ELSE after_name(email),
                      !.result = IF exists(r_customer[cid]) THEN 0 ELSE 404]]
    /\ UNCHANGED <<r_customer_id, r_customers, r_customer>>

\* r.hset(key, "name", upd.name)
update_customer_name(p) ==
    /\ creq[p].pc = "uc_name"
    /\ r_customer' = [r_customer EXCEPT ![creq[p].customer_id] =
                         hset(@, "name", creq[p].name)]
    /\ creq' = [creq EXCEPT ![p].pc = after_name(creq[p].email)]
    /\ UNCHANGED <<r_customer_id, r_customers>>

\* r.hset(key, "email", upd.email)
update_customer_email(p) ==
    /\ creq[p].pc = "uc_email"
    /\ r_customer' = [r_customer EXCEPT ![creq[p].customer_id] =
                         hset(@, "email", creq[p].email)]
    /\ creq' = [creq EXCEPT ![p].pc = "uc_hgetall"]
    /\ UNCHANGED <<r_customer_id, r_customers>>

\* data = r.hgetall(key); the response
update_customer_hgetall(p) ==
    /\ creq[p].pc = "uc_hgetall"
    /\ creq' = [creq EXCEPT ![p].pc = "idle", ![p].result = 200]
    /\ UNCHANGED <<r_customer_id, r_customers, r_customer>>

\* ------------------------------------------------------------------------
\* PATCH /items/{item_id} of src/app.py
\* ------------------------------------------------------------------------

\* init_sample_data: the categories 1..4 exist from start-up
SampleCategories == {1, 2, 3, 4}

\* the item ids a request names: the first sample item and an id never issued
ItemIds == {1, 7}

\* init_sample_data: the hash of the first sample item
SampleItem ==
    [item_id |-> "1", name |-> "Laptop",
     description |-> "High-performance laptop", price |-> "999.99",
     stock_quantity |-> "50", category_id |-> "1", sku |-> "ELEC001",
     is_active |-> "true", created_at |-> "ts"]

\* the fields of ItemUpdate in the order update_item looks at them
ItemUpdateFields ==
    <<"name", "description", "price", "stock_quantity", "category_id", "sku">>

\* the request bodies: each Optional field is the empty set (None) or holds
\* one value; category_id names an existing category or one that does not
\* exist
ItemUpdates ==
    [name : {{}, {"Desk"}}, description : {{}, {"Oak"}},
     price : {{}, {5}}, stock_quantity : {{}, {7}},
     category_id : {{}, {2}, {9}}, sku : {{}, {"HOME009"}}]

\* the value an Optional field holds
the(v) == CHOOSE x \in v : TRUE

VARIABLES
    r_item,  \* per item id, the hash "item:{id}"
    ireq     \* the update_item request: its body, its place, the hash as
             \* it was when the request began, the status it ended with

itvars == <<r_item, ireq>>

IdleItemReq == [pc |-> "idle", item_id |-> 0, before |-> NoKey, result |-> 0,
                upd |-> [f \in {"name", "description", "price",
                                "stock_quantity", "category_id", "sku"}
                           |-> {}]]

InitItems ==
    /\ r_item = [i \in ItemIds |-> IF i = 1 THEN SampleItem ELSE NoKey]
    /\ ireq = IdleItemReq

\* the next field after position k that the body carries, as the place the
\* handler goes to; with none left it reads the hash for the response
RECURSIVE next_field(_, _)
next_field(upd, k) ==
    IF k > Len(ItemUpdateFields) THEN "hgetall"
    ELSE IF upd[ItemUpdateFields[k]] # {} THEN ItemUpdateFields[k]
    ELSE next_field(upd, k + 1)

\* the position of a field in ItemUpdateFields
field_index(f) == CHOOSE k \in 1..Len(ItemUpdateFields) : ItemUpdateFields[k] = f

\* the text update_item writes for a field: str(upd.price) of a float,
\* str(...) of an int, the string itself otherwise
written(f, v) ==
    CASE f = "price" -> ToString(v) \o ".0"
      [] f \in {"stock_quantity", "category_id"} -> ToString(v)
      [] OTHER -> v

\* if not r.exists(key): 404
update_item_exists(item_id, upd) ==
    /\ ireq.pc = "idle"
    /\ ireq' = [pc |-> IF exists(r_item[item_id]) THEN next_field(upd, 1)
                       ELSE "idle",
                item_id |-> item_id, before |-> r_item[item_id],
                result |-> IF exists(r_item[item_id]) THEN 0 ELSE 404,
                upd |-> upd]
    /\ UNCHANGED r_item

\* r.hset(key, field, value) for name, description, price, stock_quantity
\* and sku
update_item_hset(f) ==
    /\ f # "category_id"
    /\ ireq.pc = f
    /\ r_item' = [r_item EXCEPT ![ireq.item_id] =
                     hset(@, f, written(f, the(ireq.upd[f])))]
    /\ ireq' = [ireq EXCEPT !.pc = next_field(ireq.upd, field_index(f) + 1)]

\* if not r.exists(f"category:{upd.category_id}"): 400 Category not found
update_item_category_exists ==
    /\ ireq.pc = "category_id"
    /\ IF the(ireq.upd.category_id) \in SampleCategories
       THEN ireq' = [ireq EXCEPT !.pc = "category_hset"]
       ELSE ireq' = [ireq EXCEPT !.pc = "idle", !.result = 400]
    /\ UNCHANGED r_item

\* r.hset(key, "category_id", str(upd.category_id))
update_item_category_hset ==
    /\ ireq.pc = "category_hset"
    /\ r_item' = [r_item EXCEPT ![ireq.item_id] =
                     hset(@, "category_id",
                          written("category_id", the(ireq.upd.category_id)))]
    /\ ireq' = [ireq EXCEPT
                  !.pc = next_field(ireq.upd, field_index("category_id") + 1)]

\* data = r.hgetall(key); the response
update_item_hgetall ==
    /\ ireq.pc = "hgetall"
    /\ ireq' = [ireq EXCEPT !.pc = "idle", !.result = 200]
    /\ UNCHANGED r_item

\* ------------------------------------------------------ specifications
auxvars == <<rtvars, bkvars, lsvars, rwvars, cuvars, itvars>>

\* what a step of each part leaves alone
FrameRoundTrip == UNCHANGED <<smvars, appvars, bkvars, lsvars, rwvars, cuvars, itvars>>
FrameBasket == UNCHANGED <<smvars, appvars, rtvars, lsvars, rwvars, cuvars, itvars>>
FrameList == UNCHANGED <<smvars, appvars, rtvars, bkvars, rwvars, cuvars, itvars>>
FrameWorker == UNCHANGED <<appvars, rtvars, bkvars, lsvars, cuvars, itvars>>
FrameCustomers ==
    UNCHANGED <<smvars, appvars, rtvars, bkvars, lsvars, rwvars, itvars>>
FrameItems ==
    UNCHANGED <<smvars, appvars, rtvars, bkvars, lsvars, rwvars, cuvars>>

vars == <<smvars, appvars, auxvars>>

InitAll == Init /\ InitApp /\ InitRoundTrip /\ InitBasket /\ InitList
             /\ InitWorker /\ InitCustomers /\ InitItems

NextApp ==
    \/ \E p \in Procs : create_order_incr(p, "Alice") /\ UNCHANGED <<smvars, auxvars>>
    \/ \E p \in Procs : create_order_hset(p) /\ UNCHANGED <<smvars, auxvars>>
    \/ \E p \in Procs : create_order_sadd(p) /\ UNCHANGED <<smvars, auxvars>>
    \/ \E p \in Procs : create_order_history(p) /\ UNCHANGED <<smvars, auxvars>>
    \/ \E p \in Procs : respond(p) /\ UNCHANGED <<smvars, auxvars>>
    \/ \E p \in Procs, o \in AppOrderIds, name \in UpdateNames,
          status \in UpdateStatuses \cup {"None"} :
          update_order_exists(p, o, name, status) /\ UNCHANGED <<smvars, auxvars>>
    \/ \E p \in Procs : update_order_hgetall(p) /\ UNCHANGED <<smvars, auxvars>>
    \/ \E p \in Procs : update_order_name(p) /\ UNCHANGED <<smvars, auxvars>>
    \/ \E p \in Procs : update_order_status(p) /\ UNCHANGED <<smvars, auxvars>>
    \/ \E p \in Procs : update_order_timestamp(p) /\ UNCHANGED <<smvars, auxvars>>
    \/ \E p \in Procs : update_order_history(p) /\ UNCHANGED <<smvars, auxvars>>
    \/ \E p \in Procs : update_order_updated(p) /\ UNCHANGED <<smvars, auxvars>>
    \/ \E p \in Procs, o \in AppOrderIds :
          advance_order_status_exists(p, o) /\ UNCHANGED <<smvars, auxvars>>
    \/ \E p \in Procs : advance_order_status_hgetall(p) /\ UNCHANGED <<smvars, auxvars>>
    \/ \E p \in Procs : advance_order_status_status(p) /\ UNCHANGED <<smvars, auxvars>>
    \/ \E p \in Procs : advance_order_status_timestamp(p) /\ UNCHANGED <<smvars, auxvars>>
    \/ \E p \in Procs : advance_order_status_history(p) /\ UNCHANGED <<smvars, auxvars>>
    \/ \E p \in Procs, o \in AppOrderIds :
          delete_order_exists(p, o) /\ UNCHANGED <<smvars, auxvars>>
    \/ \E p \in Procs : delete_order_history(p) /\ UNCHANGED <<smvars, auxvars>>
    \/ \E p \in Procs : delete_order_delete(p) /\ UNCHANGED <<smvars, auxvars>>
    \/ \E p \in Procs : delete_order_delete_history(p) /\ UNCHANGED <<smvars, auxvars>>
    \/ \E p \in Procs : delete_order_srem(p) /\ UNCHANGED <<smvars, auxvars>>
    \/ \E p \in Procs, o \in AppOrderIds :
          get_order_exists(p, o) /\ UNCHANGED <<smvars, auxvars>>
    \/ \E p \in Procs : get_order_hgetall(p) /\ UNCHANGED <<smvars, auxvars>>
    \/ \E p \in Procs : get_order_lrange(p) /\ UNCHANGED <<smvars, auxvars>>

Next ==
    \/ \E c \in Clients : create_order(c) /\ UNCHANGED <<appvars, auxvars>>
    \/ \E c \in Clients, o \in OrderIds, t \in RequestNames :
          request_transition(c, o, t) /\ UNCHANGED <<appvars, auxvars>>
    \/ \E c \in Clients : claim_next_task(c) /\ UNCHANGED <<appvars, auxvars>>
    \/ \E c \in Clients, tid \in TaskIds : complete_task(c, tid) /\ UNCHANGED <<appvars, auxvars>>
    \/ \E c \in Clients : process_next_task(c) /\ UNCHANGED <<appvars, auxvars>>
    \/ \E c \in Clients : pnt_complete(c) /\ UNCHANGED <<appvars, auxvars>>
    \/ \E c \in Clients : executeTransition(c) /\ UNCHANGED <<appvars, auxvars>>
    \/ \E c \in Clients : pnt_release(c) /\ UNCHANGED <<appvars, auxvars>>
    \/ \E c \in Clients : release_task(c) /\ UNCHANGED <<appvars, auxvars>>
    \/ \E a \in Agents : lease_expire(a) /\ UNCHANGED <<appvars, auxvars>>
    \/ \E r \in Roles \cup BadRoles : list_orders(r) /\ UNCHANGED <<appvars, auxvars>>
    \/ \E r \in BadRoles : create_order_as(r) /\ UNCHANGED <<appvars, auxvars>>

NextRoundTrip ==
    \/ \E name \in CustomerNames, items \in ItemLists :
          post_order(name, items) /\ FrameRoundTrip
    \/ read_order /\ FrameRoundTrip

NextBasket ==
    \/ \E p \in Procs, quantity \in Quantities :
          add_to_basket_exists(p, quantity) /\ FrameBasket
    \/ \E p \in Procs :
          add_to_basket_basket_exists(p) /\ FrameBasket
    \/ \E p \in Procs :
          add_to_basket_basket_hset(p) /\ FrameBasket
    \/ \E p \in Procs :
          add_to_basket_item_exists(p) /\ FrameBasket
    \/ \E p \in Procs :
          add_to_basket_hget(p) /\ FrameBasket
    \/ \E p \in Procs :
          add_to_basket_hset(p) /\ FrameBasket
    \/ \E p \in Procs :
          add_to_basket_hgetall(p) /\ FrameBasket
    \/ \E p \in Procs :
          add_to_basket_hset_new(p) /\ FrameBasket
    \/ \E p \in Procs :
          add_to_basket_sadd(p) /\ FrameBasket

NextList ==
    \/ create_order_other /\ FrameList
    \/ create_order_mine /\ FrameList
    \/ \E newest \in BOOLEAN :
          get_my_orders(newest) /\ FrameList

NextWorker ==
    \/ \E c \in Clients \ {Worker} :
          create_order(c) /\ UNCHANGED rwvars /\ FrameWorker
    \/ \E c \in Clients \ {Worker}, o \in OrderIds, t \in RequestNames :
          request_transition(c, o, t) /\ UNCHANGED rwvars /\ FrameWorker
    \/ \E a \in Agents : lease_expire(a) /\ UNCHANGED rwvars /\ FrameWorker
    \/ \E max_tasks \in 1..MaxRun : run_worker(Worker, max_tasks) /\ FrameWorker
    \/ run_worker_poll(Worker) /\ FrameWorker
    \/ run_worker_step(Worker) /\ FrameWorker
    \/ run_worker_return(Worker) /\ FrameWorker

InitIds ==
    Init /\ InitCreate /\ InitRoundTrip /\ InitBasket /\ InitList /\ InitWorker
         /\ InitCustomers /\ InitItems

NextIds ==
    \/ \E p \in Procs :
          create_order_incr(p, "Alice") /\ UNCHANGED <<smvars, auxvars>>
    \/ \E p \in Procs : create_order_hset(p) /\ UNCHANGED <<smvars, auxvars>>
    \/ \E p \in Procs : create_order_sadd(p) /\ UNCHANGED <<smvars, auxvars>>
    \/ \E p \in Procs : create_order_history(p) /\ UNCHANGED <<smvars, auxvars>>
    \/ \E p \in Procs : respond(p) /\ UNCHANGED <<smvars, auxvars>>
    \/ \E c \in Clients : create_order(c) /\ UNCHANGED <<appvars, auxvars>>
    \/ \E c \in Clients, o \in OrderIds, t \in RequestNames :
          request_transition(c, o, t) /\ UNCHANGED <<appvars, auxvars>>

SpecApp == InitAll /\ [][NextApp]_vars

SpecRoundTrip == InitAll /\ [][NextRoundTrip]_vars

SpecBasket == InitAll /\ [][NextBasket]_vars

SpecList == InitAll /\ [][NextList]_vars

SpecWorker == InitAll /\ [][NextWorker]_vars

SpecIds == InitIds /\ [][NextIds]_vars

Spec == InitAll /\ [][Next]_vars

\* Workers that keep calling process_next_task: orders are created and
\* Tasks requested (at most MaxTasks of them, then no new Task is
\* requested), every client polls its role's queue again and again, and a
\* call that has started runs to its return. The store may expire a lease;
\* nothing obliges it to, as every claim starts a fresh lease.
NextDrain ==
    \/ \E c \in Clients : create_order(c) /\ UNCHANGED <<appvars, auxvars>>
    \/ \E c \in Clients, o \in OrderIds, t \in RequestNames :
          request_transition(c, o, t) /\ UNCHANGED <<appvars, auxvars>>
    \/ \E c \in Clients : process_next_task(c) /\ UNCHANGED <<appvars, auxvars>>
    \/ \E c \in Clients : pnt_complete(c) /\ UNCHANGED <<appvars, auxvars>>
    \/ \E c \in Clients : executeTransition(c) /\ UNCHANGED <<appvars, auxvars>>
    \/ \E c \in Clients : pnt_release(c) /\ UNCHANGED <<appvars, auxvars>>
    \/ \E a \in Agents : lease_expire(a) /\ UNCHANGED <<appvars, auxvars>>

\* every worker keeps calling process_next_task and each call goes on to
\* its return
WorkersKeepPolling ==
    \A c \in Clients :
       /\ WF_vars(process_next_task(c) /\ UNCHANGED <<appvars, auxvars>>)
       /\ WF_vars(pnt_complete(c) /\ UNCHANGED <<appvars, auxvars>>)
       /\ WF_vars(executeTransition(c) /\ UNCHANGED <<appvars, auxvars>>)
       /\ WF_vars(pnt_release(c) /\ UNCHANGED <<appvars, auxvars>>)

SpecDrain == InitAll /\ [][NextDrain]_vars /\ WorkersKeepPolling

\* enqueue, claimNext and release as the clients call them, release_task
\* being given any agent's identifier
NextRelease ==
    \/ \E c \in Clients : create_order(c) /\ UNCHANGED <<appvars, auxvars>>
    \/ \E c \in Clients, o \in OrderIds, t \in RequestNames :
          request_transition(c, o, t) /\ UNCHANGED <<appvars, auxvars>>
    \/ \E c \in Clients : claim_next_task(c) /\ UNCHANGED <<appvars, auxvars>>
    \/ \E c \in Clients, a \in Agents :
          release_task_for(c, a) /\ UNCHANGED <<appvars, auxvars>>

SpecRelease == InitAll /\ [][NextRelease]_vars

\* one order taken through the workflow, one requested transition after
\* the other
NextPath ==
    \/ \E c \in Clients : create_order(c) /\ UNCHANGED <<appvars, auxvars>>
    \/ \E c \in Clients, o \in OrderIds, t \in TransitionNames :
          transition_then_process(c, o, t) /\ UNCHANGED <<appvars, auxvars>>

SpecPath == InitAll /\ [][NextPath]_vars

NextCustomers ==
    \/ \E p \in Procs, email \in Emails :
          create_customer_smembers(p, "Alice", email) /\ FrameCustomers
    \/ \E p \in Procs : create_customer_hgetall(p) /\ FrameCustomers
    \/ \E p \in Procs : create_customer_incr(p) /\ FrameCustomers
    \/ \E p \in Procs : create_customer_hset(p) /\ FrameCustomers
    \/ \E p \in Procs : create_customer_sadd(p) /\ FrameCustomers
    \/ \E p \in Procs, cid \in CustomerIds, name \in CustomerUpdateNames,
          email \in Emails \cup {"None"} :
          update_customer_exists(p, cid, name, email) /\ FrameCustomers
    \/ \E p \in Procs : update_customer_name(p) /\ FrameCustomers
    \/ \E p \in Procs : update_customer_email(p) /\ FrameCustomers
    \/ \E p \in Procs : update_customer_hgetall(p) /\ FrameCustomers

SpecCustomers == InitAll /\ [][NextCustomers]_vars

NextItems ==
    \/ \E item_id \in ItemIds, upd \in ItemUpdates :
          update_item_exists(item_id, upd) /\ FrameItems
    \/ \E f \in {"name", "description", "price", "stock_quantity", "sku"} :
          update_item_hset(f) /\ FrameItems
    \/ update_item_category_exists /\ FrameItems
    \/ update_item_category_hset /\ FrameItems
    \/ update_item_hgetall /\ FrameItems

SpecItems == InitAll /\ [][NextItems]_vars

\* run_worker runs on: its loop is not suspended for ever (time.sleep
\* returns), so a step of the loop that can be taken is taken
WorkerRuns ==
    /\ WF_vars(run_worker_poll(Worker) /\ FrameWorker)
    /\ WF_vars(run_worker_step(Worker) /\ FrameWorker)
    /\ WF_vars(run_worker_return(Worker) /\ FrameWorker)

SpecWorkerRuns == InitAll /\ [][NextWorker]_vars /\ WorkerRuns

\* ------------------------------------------------------------------------
\* Properties of the order endpoints (SpecApp)
\* ------------------------------------------------------------------------

\* the notes of the history entries that record a change of status
StatusChangeNotes == {"Status changed", "Order advanced"}

\* C1: an order's current_state changes only along a declared edge of the
\* workflow graph: every history entry that records a status change of an
\* existing order is the destination of a declared transition whose source
\* is the entry before it.
C1_OnlyDeclaredEdges ==
    \A o \in AppOrderIds :
        LET h == get_order_history(o) IN
        \A i \in 1..(Len(h) - 1) :
            (exists(r_order[o]) /\ h[i + 1].notes \in StatusChangeNotes)
            => DeclaredEdge(h[i].status, h[i + 1].status)

\* a finished advance request of handler p that passed the workflow lookup
AdvanceDone(p) ==
    /\ req[p].pc = "idle"
    /\ req[p].op = "advance_order_status"
    /\ req[p].current_status \in DOMAIN workflow
    /\ req[p].result # 0

\* the history entries advance requests wrote for the step out of `status`
AdvanceEntries(o, status) ==
    { i \in 1..Len(r_order_history[o]) :
        /\ r_order_history[o][i].notes = "Order advanced"
        /\ r_order_history[o][i].status = workflow[status] }

\* C2: when two advances of the same order both read the same state, exactly
\* one of them succeeds and exactly one history entry is written for them;
\* the other is refused.
C2_ExactlyOneWinner ==
    \A p, q \in Procs :
        ( /\ p # q
          /\ AdvanceDone(p) /\ AdvanceDone(q)
          /\ req[p].order_id = req[q].order_id
          /\ req[p].current_status = req[q].current_status
          /\ exists(r_order[req[p].order_id]) )
        => /\ (req[p].result = 200) # (req[q].result = 200)
           /\ Cardinality(AdvanceEntries(req[p].order_id,
                                         req[p].current_status)) = 1

\* C3: the status of every existing order equals the status of the newest
\* entry of its history, in every state a reader can observe.
C3_StatusIsLastHistoryEntry ==
    \A o \in AppOrderIds :
        (exists(r_order[o]) /\ r_order_history[o] # <<>>)
        => LET h == get_order_history(o) IN
           hget(r_order[o], "status") = h[Len(h)].status

\* C10: the history of every existing order has one entry for its creation
\* and one for each status change applied to it.
C10_HistoryLength ==
    \A o \in AppOrderIds :
        exists(r_order[o]) => Len(r_order_history[o]) = 1 + applied[o]

\* ------------------------------------------------------------------------
\* Properties of the state-machine service and its client (Spec)
\* ------------------------------------------------------------------------

\* the client-side names of the service's refusals
PermissionDenied == "PermissionError"
InvalidTransition == "ValueError"

Queued(tid) == \E r \in Roles : \E i \in 1..Len(queues[r]) :
                  queues[r][i].task_id = tid

Holders(tid) == { a \in Agents : claims[a].task_id = tid }

\* how many places hold Task tid: queue positions plus claim records
Places(tid) ==
    Cardinality({ <<r, i>> \in Roles \X (1..(MaxTasks + 1)) :
                    i <= Len(queues[r]) /\ queues[r][i].task_id = tid })
    + Cardinality(Holders(tid))

\* C4: a Task is held by at most one agent at a time: no two agents' claim
\* records, and no two clients working on a claimed Task, name the same Task.
C4_ClaimExclusive ==
    /\ \A a, b \in Agents :
          (a # b /\ claims[a] # NoTask) => claims[a].task_id # claims[b].task_id
    /\ \A c, d \in Clients :
          (c # d /\ cl[c].task # NoTask)
          => cl[c].task.task_id # cl[d].task.task_id

\* both fulfillment agents hold a claim at once, taken from the same queue
C4_Witness ==
    /\ claims[agent_id("f1")] # NoTask
    /\ claims[agent_id("f2")] # NoTask

\* C5: every Task created so far is in at most one place (one position of
\* one role's queue, or one agent's claim record; otherwise it is resolved),
\* a Task that leaves a queue is claimed in the same step, and a released
\* Task is queued and unclaimed after the release step.
C5_OnePlace ==
    /\ [](\A tid \in 1..next_task_id : Places(tid) <= 1)
    /\ [][\A tid \in 1..next_task_id :
            /\ (Queued(tid) /\ ~Queued(tid)') => Cardinality(Holders(tid)') = 1
            /\ \A c \in Clients :
                 ( /\ release_task(c) \/ pnt_release(c)
                   /\ claims[agent_id(c)].task_id = tid )
                 => (Queued(tid)' /\ Holders(tid)' = {})]_vars

\* a Task that was claimed and released waits in a queue again while the
\* other Task is claimed
C5_Witness ==
    /\ last = Result("release_task", "none", "none")
    /\ \E r \in Roles : queues[r] # <<>>
    /\ \E a \in Agents : claims[a] # NoTask

\* the store is untouched by a refused request
Refused == UNCHANGED <<orders, queues, claims, next_task_id>>

\* C6: a transition request by a role that is not permitted the transition
\* raises PermissionError, creates no Task and leaves the order unchanged.
C6_UnauthorizedRefused ==
    [][last'.call = "request_transition" =>
         \A c \in Clients, o \in OrderIds, t \in RequestNames :
            (~isPermitted(role(c), t) /\ request_transition(c, o, t))
            => (last'.exc = PermissionDenied /\ Refused)]_vars

\* a request on the existing pending order was refused with PermissionError
C6_Witness ==
    /\ OrderExists(1)
    /\ orders[1].current_state = "pending"
    /\ last = Result("request_transition", PermissionDenied, "none")
    /\ next_task_id = 0

\* C7: a request that is both unauthorized and illegal in the order's state
\* (or names no declared transition) is reported as PermissionDenied, never
\* as InvalidTransition.
C7_AuthorizationFirst ==
    [][last'.call = "request_transition" =>
         \A c \in Clients, o \in OrderIds, t \in RequestNames :
            ( /\ ~isPermitted(role(c), t)
              /\ OrderExists(o)
              /\ apply(orders[o].current_state, t) = "InvalidTransition"
              /\ request_transition(c, o, t) )
            => (last'.exc = PermissionDenied /\ last'.exc # InvalidTransition)]_vars

\* no transition is legal from cancelled: a request on the cancelled order
\* was refused with PermissionError although it was illegal as well
C7_Witness ==
    /\ OrderExists(1)
    /\ orders[1].current_state = "cancelled"
    /\ last = Result("request_transition", PermissionDenied, "none")

\* C8: a permitted request whose transition is not legal from the order's
\* current state raises ValueError, creates no Task and leaves the order
\* unchanged.
C8_IllegalRefused ==
    [][last'.call = "request_transition" =>
         \A c \in Clients, o \in OrderIds, t \in RequestNames :
            ( /\ isPermitted(role(c), t)
              /\ OrderExists(o)
              /\ apply(orders[o].current_state, t) = "InvalidTransition"
              /\ request_transition(c, o, t) )
            => (last'.exc = InvalidTransition /\ Refused)]_vars

\* every order exists and the last call, a transition request, raised
\* ValueError without a Task having been created
C8_Witness ==
    /\ Len(orders) = MaxOrders
    /\ last = Result("request_transition", InvalidTransition, "none")
    /\ next_task_id = 0

\* client c returns from the completion of its claimed Task and reports
\* that the transition was executed
ReportedSuccess(c) ==
    /\ cl[c].pc \in {"claimed", "executing"}
    /\ cl'[c].pc = "idle"
    /\ \/ last' = Result("process_next_task", "none", "task_completed")
       \/ last' = Result("complete_task", "none", "none")

\* C9: when the execution of a claimed Task is reported as successful, the
\* order's current_state is apply(previous state, transition), its history
\* has exactly one more entry, that state, and the agent's claim is removed.
C9_SuccessfulExecution ==
    [][\A c \in Clients :
         ReportedSuccess(c)
         => LET o == cl[c].task.order_id
                t == cl[c].task.transition
                new == apply(orders[o].current_state, t)
            IN /\ new # "InvalidTransition"
               /\ orders'[o].current_state = new
               /\ orders'[o].history = Append(orders[o].history, new)
               /\ claims'[agent_id(c)] = NoTask]_vars

\* a worker completed the confirm Task of the pending order
C9_Witness ==
    /\ OrderExists(1)
    /\ orders[1] = [current_state |-> "confirmed",
                    history |-> <<"pending", "confirmed">>]
    /\ last = Result("process_next_task", "none", "task_completed")
    /\ \A a \in Agents : claims[a] = NoTask

\* C11: within one role's queue Tasks are served oldest-appended-first: in
\* every step a queue stays as it is, loses its head to the agent that
\* claims it, or gains one Task at its tail (a new Task or a released one,
\* behind every Task that was queued before).
C11_OldestFirst ==
    [][\A r \in Roles :
          \/ queues'[r] = queues[r]
          \/ /\ queues[r] # <<>>
             /\ queues'[r] = Tail(queues[r])
             /\ \E a \in Agents : claims'[a] = Head(queues[r])
          \/ /\ Len(queues'[r]) = Len(queues[r]) + 1
             /\ SubSeq(queues'[r], 1, Len(queues[r])) = queues[r]]_vars

\* Task 1 was claimed and released while Task 2 was queued: it waits behind
\* Task 2
C11_Witness ==
    /\ Len(queues["fulfillment"]) = 2
    /\ queues["fulfillment"][1].task_id = 2
    /\ queues["fulfillment"][2].task_id = 1

\* C12: when a lease expires the claim record is removed and the Task is in
\* no queue; a Task that is in no queue and in no claim record never comes
\* back, so no later claimNext returns it.
C12_ExpiredTaskGone ==
    [][\A tid \in 1..next_task_id :
          /\ Places(tid) = 0 => Places(tid)' = 0
          /\ \A a \in Agents :
                (claims[a].task_id = tid /\ lease_expire(a))
                => Places(tid)' = 0]_vars

\* the only Task created was claimed and its lease ran out: the order is as
\* created and the Task is nowhere
C12_Witness ==
    /\ next_task_id = 1
    /\ Places(1) = 0
    /\ OrderExists(1)
    /\ orders[1] = NewOrder

\* C13: release by an agent with an active claim removes the claim and
\* re-appends the Task at the tail of the role's queue in one step; by an
\* agent with no claim it changes no queue and no claim record and the
\* client raises ValueError ('No task claimed').
C13_Release ==
    [][last'.call \in {"release_task", "process_next_task"} =>
         \A c \in Clients :
            (release_task(c) \/ pnt_release(c))
            => IF claims[agent_id(c)] # NoTask
               THEN /\ claims'[agent_id(c)] = NoTask
                    /\ queues'[role(c)] =
                          Append(queues[role(c)], claims[agent_id(c)])
                    /\ release_task(c) => last'.exc = "none"
               ELSE /\ UNCHANGED <<queues, claims>>
                    /\ release_task(c) => last'.exc = "ValueError"]_vars

\* a release by an agent without a claim raised ValueError while a Task
\* was waiting in a queue
C13_Witness ==
    /\ last = Result("release_task", "ValueError", "none")
    /\ \E r \in Roles : queues[r] # <<>>

\* C14: complete by an agent that has no claim, or whose claim is for
\* another Task, raises ValueError, re-enqueues nothing and leaves every
\* claim record, queue and order unchanged.
C14_CompleteNeedsOwnClaim ==
    [][\A c \in Clients :
          /\ \A tid \in TaskIds :
                (claims[agent_id(c)].task_id # tid /\ complete_task(c, tid))
                => /\ last' = Result("complete_task", "ValueError", "none")
                   /\ UNCHANGED <<orders, queues, claims, cl>>
          /\ (claims[agent_id(c)].task_id # cl[c].task.task_id
                /\ pnt_complete(c))
             => /\ cl'[c].pc = "failed"
                /\ UNCHANGED <<orders, queues, claims>>]_vars

\* a complete_task call raised ValueError while the other fulfillment agent
\* held a claim
C14_Witness ==
    /\ last = Result("complete_task", "ValueError", "none")
    /\ claims[agent_id("f1")] # NoTask
    /\ claims[agent_id("f2")] = NoTask
    /\ claims[agent_id("c1")] = NoTask
    /\ next_task_id = 1

\* C15: claimNext on a role whose queue is empty returns no Task without an
\* error and changes no queue, no claim record and no order.
C15_EmptyQueueClaim ==
    [][\A c \in Clients :
          queues[role(c)] = <<>>
          => /\ claim_next_task(c)
                => /\ last' = Result("claim_next_task", "none", "no_task")
                   /\ UNCHANGED <<orders, queues, claims, cl>>
             /\ process_next_task(c)
                => /\ last' = Result("process_next_task", "none", "no_task")
                   /\ UNCHANGED <<orders, queues, claims, cl>>]_vars

\* a worker found its queue empty while an order existed
C15_Witness ==
    /\ last = Result("process_next_task", "none", "no_task")
    /\ OrderExists(1)

\* C16: a Task whose transition is no outgoing edge of the order's state
\* when it is executed is not applied: the execution fails and the order's
\* current_state and history are unchanged.
C16_StaleTaskNotApplied ==
    [][\A c \in Clients :
          ( /\ executeTransition(c)
            /\ apply(orders[cl[c].task.order_id].current_state,
                     cl[c].task.transition) = "InvalidTransition" )
          => /\ orders' = orders
             /\ IF cl[c].in_pnt THEN cl'[c].pc = "failed"
                ELSE last'.exc # "none"]_vars

\* two confirm Tasks were queued for the pending order: the first was
\* applied, the second failed and was released back to the queue
C16_Witness ==
    /\ OrderExists(1)
    /\ orders[1] = [current_state |-> "confirmed",
                    history |-> <<"pending", "confirmed">>]
    /\ next_task_id = 2
    /\ last = Result("process_next_task", "none", "task_failed")
    /\ Len(queues["fulfillment"]) = 1
    /\ queues["fulfillment"][1].transition = "confirm"

\* ------------------------------------------------------------------------
\* Further properties of the order endpoints (SpecApp)
\* ------------------------------------------------------------------------

TerminalStates == {"cancelled", "returned"}

\* order o exists and its status is `status`
HasStatus(o, status) == exists(r_order[o]) /\ hget(r_order[o], "status") = status

\* a status-change entry is pushed onto the history of order o in this step
StatusChangeAppended(o) ==
    /\ Len(r_order_history'[o]) = Len(r_order_history[o]) + 1
    /\ Head(r_order_history'[o]).notes \in StatusChangeNotes

\* C17: cancelled and returned are terminal: once an order's status is
\* cancelled or returned and recorded in its history, no step gives the
\* order another status or appends a status change to its history.
C17_TerminalStatesFinal ==
    [][\A o \in AppOrderIds : \A t \in TerminalStates :
          ( /\ HasStatus(o, t)
            /\ r_order_history[o] # <<>>
            /\ Head(r_order_history[o]).status = t
            /\ exists(r_order'[o]) )
          => (HasStatus(o, t)' /\ ~StatusChangeAppended(o))]_vars

\* handler p, running the endpoint `op`, takes this step
StepOf(p, op) == req[p].op = op /\ req[p].pc # "idle" /\ req'[p] # req[p]

\* C18: the update and delete endpoints leave the status and the history of
\* every existing order untouched.
C18_NoOtherWriter ==
    [][\A p \in Procs :
          (StepOf(p, "update_order") \/ StepOf(p, "delete_order"))
          => \A o \in AppOrderIds :
                exists(r_order[o])
                => /\ hget(r_order'[o], "status") = hget(r_order[o], "status")
                   /\ r_order_history'[o] = r_order_history[o]]_vars

IsPrefix(s, t) == Len(s) <= Len(t) /\ SubSeq(t, 1, Len(s)) = s

\* C19: history is append-only: in every step the history of every order,
\* oldest entry first, is a prefix of its history after the step.
C19_HistoryAppendOnly ==
    [][\A o \in AppOrderIds :
          IsPrefix(get_order_history(o), get_order_history(o)')]_vars

\* C20: every order a reader observes has a history that starts with the
\* entry (pending, 'Order created'): a GET /orders/{id} that holds the
\* order's data and is about to read its history finds it seeded.
C20_ObservedHistorySeeded ==
    \A p \in Procs :
        req[p].pc = "go_lrange"
        => LET h == get_order_history(req[p].order_id) IN
           /\ h # <<>>
           /\ h[1] = [status |-> "pending", notes |-> "Order created"]

\* ------------------------------------------------------------------------
\* Permissions, reads and status of the state-machine service (Spec)
\* ------------------------------------------------------------------------

CustomerOnly == { e.name : e \in cancel_transitions \cup ReturnEdges }

FulfillmentOnly ==
    { e.name : e \in ForwardEdges \cup halt_transitions \cup resume_transitions }

\* C22: the permission table gives every declared transition to exactly one
\* role: the cancel transitions and return_order to customer only, the
\* forward, halt and resume transitions to fulfillment only; hence every
\* queued Task waits in the queue of the one role permitted its transition.
C22_PermissionPartition ==
    /\ \A t \in TransitionNames :
          Cardinality({ r \in Roles : isPermitted(r, t) }) = 1
    /\ \A t \in CustomerOnly :
          isPermitted("customer", t) /\ ~isPermitted("fulfillment", t)
    /\ \A t \in FulfillmentOnly :
          isPermitted("fulfillment", t) /\ ~isPermitted("customer", t)
    /\ \A r \in Roles : \A i \in 1..Len(queues[r]) :
          { q \in Roles : isPermitted(q, queues[r][i].transition) } = {r}

\* both roles had a request accepted: each queue holds a Task
C22_Witness ==
    /\ queues["customer"] # <<>>
    /\ queues["fulfillment"] # <<>>

\* the outgoing edges of `state` whose name the table permits to role r
PermittedOutgoing(r, state) ==
    { e.name : e \in { d \in WorkflowGraph :
                          d.source = state /\ d.name \in ROLE_PERMISSIONS[r] } }

QueuedIn(r) ==
    { tid \in 1..next_task_id :
        \E i \in 1..Len(queues[r]) : queues[r][i].task_id = tid }

\* C25: queue status reports the number of Tasks in each role's queue,
\* total_queued as their sum, total_processing as the number of Tasks held
\* in an active claim record, and total_tasks as total_queued plus
\* total_processing: the number of Tasks that are queued or claimed.
C25_QueueStatus ==
    LET s == get_queue_status IN
    /\ s.customer_queued = Cardinality(QueuedIn("customer"))
    /\ s.fulfillment_queued = Cardinality(QueuedIn("fulfillment"))
    /\ s.total_queued = s.customer_queued + s.fulfillment_queued
    /\ s.total_processing =
          Cardinality({ tid \in 1..next_task_id : Holders(tid) # {} })
    /\ s.total_tasks = s.total_queued + s.total_processing
    /\ s.total_tasks =
          Cardinality({ tid \in 1..next_task_id : Places(tid) >= 1 })
    /\ get_queue_size = Cardinality({ tid \in 1..next_task_id : Queued(tid) })

\* one Task waits in a queue while another is claimed
C25_Witness ==
    /\ get_queue_status.total_queued = 1
    /\ get_queue_status.total_processing = 1
    /\ get_queue_status.total_tasks = 2

\* ------------------------------------------------------------------------
\* The advance endpoint (SpecApp)
\* ------------------------------------------------------------------------

\* the statuses that have a successor on the forward chain
ChainSources == { e.source : e \in ForwardEdges }

ForwardStep(s, d) == \E e \in ForwardEdges : e.source = s /\ e.dest = d

\* handler p takes a step of an advance request (its first step included)
AdvanceStep(p) == req'[p] # req[p] /\ req'[p].op = "advance_order_status"

C21_RoundTrip ==
    rt_out # NoKey
    => /\ rt_out.status = "pending"
       /\ rt_out.customer_name = rt_in.customer_name
       /\ rt_out.items = rt_in.items

\* ------------------------------------------------------------------------
\* The basket endpoint (SpecBasket)
\* ------------------------------------------------------------------------

\* C29: no add to the basket is lost: whenever no add_to_basket call is
\* running, the stored quantity of the basket item equals the sum of the
\* quantities of the calls made.
C29_NoLostUpdate ==
    (\A p \in Procs : breq[p].pc = "idle")
    => IF exists(r_basket_item) THEN r_basket_item.quantity = added
       ELSE added = 0

\* ------------------------------------------------------------------------
\* Listing a customer's orders (SpecList)
\* ------------------------------------------------------------------------

\* C27: after create_order for customer N has returned order o, the result
\* of get_my_orders(N) contains o, however many other orders the store
\* holds.
C27_MyOrderListed ==
    ls_result.called => my_order_id \in ls_result.orders

\* ------------------------------------------------------------------------
\* Worker mode (SpecWorker)
\* ------------------------------------------------------------------------

\* C28: run_worker(agent_id, max_tasks = N) collects at most N results, and
\* the list it returns has one result, task_completed or task_failed, for
\* each Task it claimed; when the role's queue is empty at its first poll it
\* returns the empty list and changes no order, queue or claim record.
C28_WorkerResults ==
    /\ [](rw.pc # "off"
            => /\ Len(rw.processed_tasks) <= rw.max_tasks
               /\ \A i \in 1..Len(rw.processed_tasks) :
                     rw.processed_tasks[i] \in {"task_completed", "task_failed"}
               /\ rw.pc = "returned"
                  => Len(rw.processed_tasks) = rw.claimed)
    /\ [][(run_worker_poll(Worker) /\ ~rw.polled
             /\ queues[role(Worker)] = <<>>)
           => /\ rw'.pc = "returned"
              /\ rw'.processed_tasks = <<>>
              /\ UNCHANGED <<orders, queues, claims, next_task_id, cl>>]_vars

\* the worker ran with max_tasks = 2 and returned two results: the first
\* confirm Task completed, the second failed on the confirmed order
C28_Witness ==
    /\ rw.pc = "returned"
    /\ rw.max_tasks = 2
    /\ rw.processed_tasks = <<"task_completed", "task_failed">>
    /\ rw.claimed = 2

\* ------------------------------------------------------------------------
\* Fresh identifiers (SpecIds)
\* ------------------------------------------------------------------------

\* handler p is given its order id in this step
IdIssued(p) ==
    req[p].pc = "idle" /\ req'[p].op = "create_order" /\ req'[p].pc = "co_hset"

\* the Task appended to a queue in this step, as a set (empty: none)
Enqueued ==
    { tk \in UNION { { queues'[r][i] : i \in 1..Len(queues'[r]) } : r \in Roles } :
        \E r \in Roles : queues'[r] = Append(queues[r], tk) }

\* C30: identifiers are fresh. No two create_order requests, overlapping or
\* not, are given the same order id: each id issued is greater than the
\* counter before the step and not greater than the counter after it, and
\* the counter never goes down. The same holds for the task id of every
\* enqueue, and no two queued Tasks share an id.
C30_FreshIdentifiers ==
    /\ [](\A p, q \in Procs :
            (p # q /\ req[p].op = "create_order" /\ req[q].op = "create_order")
            => req[p].order_id # req[q].order_id)
    /\ [](\A tid \in 1..next_task_id : Places(tid) <= 1)
    /\ [][/\ r_order_id' >= r_order_id
           /\ \A p \in Procs :
                 IdIssued(p) => /\ req'[p].order_id > r_order_id
                                /\ req'[p].order_id <= r_order_id'
           /\ next_task_id' >= next_task_id
           /\ \A tk \in Enqueued :
                 tk.task_id > next_task_id /\ tk.task_id <= next_task_id']_vars

\* two overlapping create_order requests were answered with the ids 1 and 2
\* and two Tasks were enqueued with the ids 1 and 2
C30_Witness ==
    /\ \A p \in Procs :
          req[p].op = "create_order" /\ req[p].pc = "idle" /\ req[p].result = 200
    /\ { req[p].order_id : p \in Procs } = {1, 2}
    /\ { tid \in 1..next_task_id : Queued(tid) } = {1, 2}

\* ------------------------------------------------------------------------
\* An agent claiming twice (Spec)
\* ------------------------------------------------------------------------

\* C31: a claimNext by an agent that already holds an active claim does not
\* lose the Task claimed earlier: when the agent's claim record is replaced
\* by another Task, the earlier Task is queued or recorded as claimed after
\* the step.
C31_EarlierClaimKept ==
    [][\A a \in Agents, tid \in 1..next_task_id :
          ( /\ claims[a].task_id = tid
            /\ claims'[a] # NoTask
            /\ claims'[a].task_id # tid )
          => (Queued(tid)' \/ Holders(tid)' # {})]_vars

\* ------------------------------------------------------------------------
\* What process_next_task leaves behind (Spec)
\* ------------------------------------------------------------------------

\* client c returns from a process_next_task that had claimed a Task
ProcessingReturns(c) == cl[c].in_pnt /\ cl'[c].pc = "idle"

C33_QueuesDrain ==
    <>[](/\ \A r \in Roles : queues[r] = <<>>
         /\ \A a \in Agents : claims[a] = NoTask)

\* ------------------------------------------------------------------------
\* Termination of run_worker (SpecWorkerRuns)
\* ------------------------------------------------------------------------

\* C34: run_worker with a finite max_tasks terminates once no further Task
\* is enqueued: a worker that has entered its loop eventually returns, also
\* when the queue runs empty after it processed at least one and fewer than
\* max_tasks Tasks.
C34_WorkerTerminates == (rw.pc = "loop") ~> (rw.pc = "returned")

\* ------------------------------------------------------------------------
\* Tasks stay in their role's queue (SpecRelease)
\* ------------------------------------------------------------------------

\* C35: every Task in a role's queue has that role as its permitted role,
\* whatever enqueue, claimNext and release calls were made; a release called
\* with another role than the claimed Task's never puts the Task into the
\* other role's queue.
C35_QueueHoldsOwnRole ==
    \A r \in Roles : \A i \in 1..Len(queues[r]) : queues[r][i].role = r

\* ------------------------------------------------------------------------
\* The way to shipping (SpecPath)
\* ------------------------------------------------------------------------

\* the states named occur in the history one after the other, in this order
OccurInOrder(h, names) ==
    \E at \in [1..Len(names) -> 1..Len(h)] :
       /\ \A k \in 1..Len(names) : h[at[k]] = names[k]
       /\ \A k \in 1..(Len(names) - 1) : at[k] < at[k + 1]

\* C36: every order whose current_state is shipped or delivered has
\* confirmed, picking, packed and shipped in its history, in that order: no
\* order reaches shipping having skipped a fulfillment step by way of halt
\* and resume.
C36_NoStepSkipped ==
    \A o \in 1..Len(orders) :
       orders[o].current_state \in {"shipped", "delivered"}
       => OccurInOrder(orders[o].history,
                       <<"confirmed", "picking", "packed", "shipped">>)

\* ------------------------------------------------------------------------
\* Deleting beside a writer (SpecApp)
\* ------------------------------------------------------------------------

\* C37: every order key present in the store holds a complete record
\* (order_id, customer_name, items, status, created_at, updated_at), however
\* delete_order overlaps with update_order or advance on the same order: a
\* deleted order is never recreated in part by a concurrent writer.
C37_CompleteRecords ==
    \A o \in AppOrderIds :
       exists(r_order[o]) => ResponseFields \subseteq DOMAIN r_order[o]

\* ------------------------------------------------------------------------
\* Customer emails (SpecCustomers)
\* ------------------------------------------------------------------------

\* C38: no two customer records have the same email, whatever create_customer
\* and update_customer calls were made, one after the other or overlapping.
C38_UniqueEmails ==
    \A i, j \in CustomerIds :
       (i # j /\ exists(r_customer[i]) /\ exists(r_customer[j]))
       => hget(r_customer[i], "email") # hget(r_customer[j], "email")

\* ------------------------------------------------------------------------
\* A refused update_item (SpecItems)
\* ------------------------------------------------------------------------

\* C39: an update_item request that ends with 400 "Category not found"
\* leaves the item record as it was when the request began: none of the
\* other fields of the same request (name, description, price,
\* stock_quantity) is written.
C39_RefusedUpdateWritesNothing ==
    (ireq.pc = "idle" /\ ireq.result = 400)
    => r_item[ireq.item_id] = ireq.before

====
